---- MODULE Spec2Model ----
(***************************************************************************)
(* Model of strongMan/apps/certificates/container.py: the container type   *)
(* detector (ContainerDetector), the four container classes and the        *)
(* fingerprint function.                                                   *)
(*                                                                         *)
(* A byte buffer is modelled by what the decoders of oscrypto.keys make of *)
(* it: the result of parse_pkcs12, of parse_private and of                 *)
(* parse_certificate (each a decoded tree, or NoDecode when the decoder    *)
(* raises), and the password the buffer is encrypted under.  A Python call *)
(* is modelled by its outcome: Return(v) or Raise(e).                      *)
(***************************************************************************)
EXTENDS Integers, Sequences, FiniteSets, TLC

VARIABLES c, ret, parsed

vars == <<c, ret, parsed>>

-----------------------------------------------------------------------------
(* Python values.  Every value that can meet a value of another type in a
   comparison is a record tagged with its Python type. *)

None == [py |-> "NoneType"]
PyFalse == [py |-> "bool", b |-> FALSE]
PyTrue == [py |-> "bool", b |-> TRUE]
PyInt(n) == [py |-> "int", n |-> n]
PyBytes(s) == [py |-> "bytes", octets |-> s]
PyDict(f) == [py |-> "dict", items |-> f]
PyStr(s) == [py |-> "str", s |-> s]
PyList(s) == [py |-> "list", elems |-> s]

\* An attribute that was never assigned: reading it raises AttributeError.
Unset == [py |-> "unset"]

\* The builtin type object `bytes` (not a byte string).
BuiltinBytes == [py |-> "type"]

Return(v) == [kind |-> "return", val |-> v, exc |-> "-"]
Raise(e) == [kind |-> "raise", val |-> None, exc |-> e]

Returned(r) == r.kind = "return"
Raised(r) == r.kind = "raise"

\* The exception classes the calls of the model raise.  All of them derive
\* from Exception, so `except Exception` and a bare `except` both catch them.
ExceptionClasses ==
    {"ValueError", "TypeError", "KeyError", "AttributeError", "AssertionError",
     "UnboundLocalError", "NotImplementedError", "CertificateException"}

\* d[key]: a mapping yields the value or raises KeyError; bytes, int and None
\* are not subscriptable by a string.
GetItem(d, key) ==
    IF d.py # "dict" THEN Raise("TypeError")
    ELSE IF key \in DOMAIN d.items THEN Return(d.items[key])
    ELSE Raise("KeyError")

EmptyItems == [k \in {} |-> None]

-----------------------------------------------------------------------------
(* class ContainerTypes(Enum) *)

ContainerTypes == {"PKCS1", "PKCS8", "PKCS12", "X509", "Undefined"}

\* ContainerTypes.<member>.value
TypeValue(t) == IF t = "Undefined" THEN None ELSE PyStr(t)

-----------------------------------------------------------------------------
(* oscrypto.keys and asn1crypto, as the module uses them.

   A byte buffer is the record of what each decoder makes of it; pw is the
   password it is encrypted under (None: not encrypted).  A decoder raises
   ValueError on bytes it cannot decode or cannot decrypt, and TypeError on
   an argument that is not a byte string or on a keyword it does not take. *)

NoDecode == [py |-> "undecodable"]

Buffer(p12, priv, cert, pw) ==
    [py |-> "buffer", p12 |-> p12, priv |-> priv, cert |-> cert, pw |-> pw]

\* The password opens the buffer: an unencrypted buffer opens under any
\* password, an encrypted one under its own.
Opens(data, password) == data.pw = None \/ data.pw = password

\* k.parse_private(data, password=None)
parse_private(data, password) ==
    IF data.py # "buffer" THEN Raise("TypeError")
    ELSE IF data.priv = NoDecode \/ ~Opens(data, password) THEN Raise("ValueError")
    ELSE Return(data.priv)

\* k.parse_pkcs12(data, password=None)
parse_pkcs12(data, password) ==
    IF data.py # "buffer" THEN Raise("TypeError")
    ELSE IF data.p12 = NoDecode \/ ~Opens(data, password) THEN Raise("ValueError")
    ELSE Return(data.p12)

\* k.parse_certificate(data)
parse_certificate(data) ==
    IF data.py # "buffer" THEN Raise("TypeError")
    ELSE IF data.cert = NoDecode THEN Raise("ValueError")
    ELSE Return(data.cert)

\* k.parse_certificate(data, password=...): the function takes one
\* parameter, so the call with a keyword raises TypeError before decoding.
parse_certificate_kw(data, password) == Raise("TypeError")

\* asn1.dump(): the DER bytes of a decoded structure, which decode to it again
\* and are not encrypted.  x.dump() on None raises AttributeError.
dump(asn1) ==
    IF asn1.py = "PrivateKeyInfo" THEN Return(Buffer(NoDecode, asn1, NoDecode, None))
    ELSE IF asn1.py = "Certificate" THEN Return(Buffer(NoDecode, NoDecode, asn1, None))
    ELSE Raise("AttributeError")

\* keys.RSAPrivateKey.load(x) / keys.ECPrivateKey.load(x): decodes an encoded
\* structure; anything but encoded bytes is a TypeError.
load(x) ==
    IF x.py = "encoded" THEN Return(PyDict(x.inner)) ELSE Raise("TypeError")

\* asn1.native of a PrivateKeyInfo: {"private_key": ...}
KeyNative(asn1) == PyDict([private_key |-> asn1.private_key])

\* d[k1][k2]...: the lookups of a key path, left to right.
RECURSIVE GetPath(_, _)
GetPath(d, key_path) ==
    IF key_path = <<>> THEN Return(d)
    ELSE LET r == GetItem(d, Head(key_path))
         IN IF Raised(r) THEN r ELSE GetPath(r.val, Tail(key_path))

\* try: body / except Exception (or bare except): handler
TryExcept(body, handler) ==
    IF Raised(body) /\ body.exc \in ExceptionClasses THEN handler ELSE body

-----------------------------------------------------------------------------
(* Strings and digests.  A Python str is the sequence of its code points, a
   byte string the sequence of its octets; the formatted hash is a sequence
   of one-character strings. *)

RECURSIVE Decimal(_)
Decimal(n) ==
    IF n < 10 THEN <<48 + n>> ELSE Decimal(n \div 10) \o <<48 + (n % 10)>>

HexCode(d) == IF d < 10 THEN 48 + d ELSE 87 + d

\* One octet inside repr(bytes), quoted with '.
ReprOctet(b) ==
    IF b = 92 THEN <<92, 92>>
    ELSE IF b = 39 THEN <<92, 39>>
    ELSE IF b = 9 THEN <<92, 116>>
    ELSE IF b = 10 THEN <<92, 110>>
    ELSE IF b = 13 THEN <<92, 114>>
    ELSE IF b >= 32 /\ b < 127 THEN <<b>>
    ELSE <<92, 120, HexCode(b \div 16), HexCode(b % 16)>>

RECURSIVE ReprOctets(_)
ReprOctets(s) ==
    IF s = <<>> THEN <<>> ELSE ReprOctet(Head(s)) \o ReprOctets(Tail(s))

\* str(ident): the decimal digits of an int, "None" for None, the repr
\* b'...' of a byte string.
Str(v) ==
    IF v.py = "int" THEN Decimal(v.n)
    ELSE IF v.py = "NoneType" THEN <<78, 111, 110, 101>>
    ELSE IF v.py = "bytes" THEN <<98, 39>> \o ReprOctets(v.octets) \o <<39>>
    ELSE v.s

\* value.encode('utf-8')
RECURSIVE Utf8(_)
Utf8(s) ==
    IF s = <<>> THEN <<>>
    ELSE (IF Head(s) < 128 THEN <<Head(s)>>
          ELSE <<192 + (Head(s) \div 64), 128 + (Head(s) % 64)>>) \o Utf8(Tail(s))

DigestLen == 32

RECURSIVE Absorb(_, _)
Absorb(s, acc) ==
    IF s = <<>> THEN acc ELSE Absorb(Tail(s), (acc * 31 + Head(s) + 1) % 65521)

\* hashlib.sha256().update(value).digest(): a DigestLen-octet function of the
\* input octets (a stand-in for SHA-256, which is not computed here).
Digest(octets) ==
    LET seed == Absorb(octets, Len(octets) + 1)
    IN [i \in 1..DigestLen |-> ((seed + i) * (2 * i + 1) + (seed \div 256)) % 256]

HexDigits == <<"0", "1", "2", "3", "4", "5", "6", "7", "8", "9",
               "a", "b", "c", "d", "e", "f">>

\* binascii.hexlify(hash_bytes).decode('utf-8')
RECURSIVE hexlify(_)
hexlify(hash_bytes) ==
    IF hash_bytes = <<>> THEN <<>>
    ELSE <<HexDigits[(Head(hash_bytes) \div 16) + 1],
           HexDigits[(Head(hash_bytes) % 16) + 1]>> \o hexlify(Tail(hash_bytes))

UpperChar(ch) ==
    CASE ch = "a" -> "A" [] ch = "b" -> "B" [] ch = "c" -> "C"
      [] ch = "d" -> "D" [] ch = "e" -> "E" [] ch = "f" -> "F"
      [] OTHER -> ch

\* str.upper()
upper(s) == [i \in 1..Len(s) |-> UpperChar(s[i])]

\* regex.findall('..', s): the non-overlapping two-character matches, left to
\* right; a last odd character matches nothing.
RECURSIVE findall2(_)
findall2(s) ==
    IF Len(s) < 2 THEN <<>> ELSE <<SubSeq(s, 1, 2)>> \o findall2(SubSeq(s, 3, Len(s)))

RECURSIVE JoinParts(_)
JoinParts(parts) ==
    IF parts = <<>> THEN <<>> ELSE Head(parts) \o <<":">> \o JoinParts(Tail(parts))

\* _format_hash that keeps the colon after the last pair.
_format_hash_trailing(hash_bytes) ==
    JoinParts(findall2(upper(hexlify(hash_bytes))))

\* AbstractContainer._format_hash
_format_hash(hash_bytes) ==
    LET hash_hex == hexlify(hash_bytes)
        hash_upper == upper(hash_hex)
        formated_hash == JoinParts(findall2(hash_upper))
    IN SubSeq(formated_hash, 1, Len(formated_hash) - 1)

\* AbstractContainer._sha256
_sha256(value) == _format_hash(Digest(Utf8(value)))

-----------------------------------------------------------------------------
(* Sequencing of calls: a raised exception ends the caller unless a try
   block catches it. *)

\* x = <call r>; F(x)
Bind(r, F(_)) == IF Raised(r) THEN r ELSE F(r.val)

\* try: x = <call r> / except Exception: handler; then F(x)
TryElse(r, handler, F(_)) == IF Raised(r) THEN TryExcept(r, handler) ELSE F(r.val)

\* A block that returned True has returned; otherwise the next block runs.
OrElse(first, next) == IF Raised(first) \/ first.val THEN first ELSE next

\* if <probe>: return tag / elif ...
ElIf(probe, tag, rest) ==
    IF Raised(probe) THEN probe ELSE IF probe.val THEN Return(tag) ELSE rest

-----------------------------------------------------------------------------
(* class ContainerDetector *)

\* ContainerDetector._is_x509
_is_x509(container_bytes, password) ==
    TryExcept(Bind(IF password = None
                   THEN parse_certificate(container_bytes)
                   ELSE parse_certificate_kw(container_bytes, password),
                   LAMBDA cert : Return(TRUE)),
              Return(FALSE))

\* if cert.native["private_key"][field] is not None: return True
FieldIsNotNone(cert, field) ==
    Bind(GetPath(KeyNative(cert), <<"private_key", field>>),
         LAMBDA value : Return(value # None))

\* try: <that> / except: pass
TryField(cert, field) == TryExcept(FieldIsNotNone(cert, field), Return(FALSE))

\* _is_pkcs8 with the public_key lookup outside its try block.
_is_pkcs8_unguarded(container_bytes, password) ==
    TryElse(IF password = None
            THEN parse_private(container_bytes, None)
            ELSE parse_private(container_bytes, password),
            Return(FALSE),
            LAMBDA cert : OrElse(TryField(cert, "modulus"),
                                 FieldIsNotNone(cert, "public_key")))

\* ContainerDetector._is_pkcs8
_is_pkcs8(container_bytes, password) ==
    TryElse(IF password = None
            THEN parse_private(container_bytes, None)
            ELSE parse_private(container_bytes, password),
            Return(FALSE),
            LAMBDA cert : OrElse(TryField(cert, "modulus"),
                                 OrElse(TryField(cert, "public_key"), Return(FALSE))))

\* ContainerDetector._is_pkcs1: the exclusion check is called with the
\* builtin `bytes`, not with container_bytes.
_is_pkcs1(container_bytes, password) ==
    Bind(_is_pkcs8(BuiltinBytes, password),
         LAMBDA excluded :
            IF excluded THEN Return(FALSE)
            ELSE TryExcept(Bind(IF password = None
                                THEN parse_private(container_bytes, None)
                                ELSE parse_private(container_bytes, password),
                                LAMBDA cert : Return(TRUE)),
                           Return(FALSE)))

\* ContainerDetector._is_pkcs12
_is_pkcs12(container_bytes, password) ==
    TryExcept(Bind(IF password = None
                   THEN parse_pkcs12(container_bytes, None)
                   ELSE parse_pkcs12(container_bytes, password),
                   LAMBDA p12 : Return(TRUE)),
              Return(FALSE))

\* detect_type with the raw key probe ahead of the wrapped key probe.
detect_type_raw_first(container_bytes, password) ==
    ElIf(_is_pkcs12(container_bytes, password), "PKCS12",
    ElIf(_is_pkcs1(container_bytes, password), "PKCS1",
    ElIf(_is_pkcs8(container_bytes, password), "PKCS8",
    ElIf(_is_x509(container_bytes, password), "X509",
    Return("Undefined")))))

\* ContainerDetector.detect_type: the if/elif cascade; an exception escaping
\* a probe escapes detect_type.
detect_type(container_bytes, password) ==
    ElIf(_is_pkcs12(container_bytes, password), "PKCS12",
    ElIf(_is_pkcs8(container_bytes, password), "PKCS8",
    ElIf(_is_pkcs1(container_bytes, password), "PKCS1",
    ElIf(_is_x509(container_bytes, password), "X509",
    Return("Undefined")))))

-----------------------------------------------------------------------------
(* class AbstractContainer.  A container is the record of its attributes;
   cls is its class.  asn1, privatekey, cert and certs are assigned by parse
   alone and are Unset until then. *)

Classes == {"PKCS1Container", "PKCS8Container", "PKCS12Container", "X509Container"}

\* AbstractContainer.__init__ (type None is no member of ContainerTypes)
AbstractContainer_init(cls) ==
    [cls |-> cls, bytes |-> None, type |-> "None", password |-> None,
     asn1 |-> Unset, privatekey |-> Unset, cert |-> Unset, certs |-> Unset]

\* AbstractContainer.by_bytes
by_bytes(cls, bytes, password) ==
    Bind(detect_type(bytes, password),
         LAMBDA type : Return([AbstractContainer_init(cls) EXCEPT
                                  !.bytes = bytes, !.type = type,
                                  !.password = password]))

\* str.lower() on the algorithm names
lower(a) ==
    CASE a.s = "RSA" -> PyStr("rsa") [] a.s = "EC" -> PyStr("ec")
      [] a.s = "DSA" -> PyStr("dsa") [] OTHER -> a

\* self.asn1.algorithm / self.privatekey.algorithm: an attribute of a decoded
\* PrivateKeyInfo; Unset and None have no such attribute.
AlgorithmAttr(asn1) ==
    IF asn1.py = "PrivateKeyInfo" THEN Return(asn1.algorithm) ELSE Raise("AttributeError")

\* self.asn1.native / self.privatekey.native
NativeAttr(asn1) ==
    IF asn1.py = "PrivateKeyInfo" THEN Return(KeyNative(asn1))
    ELSE IF asn1.py = "Certificate" THEN Return(asn1.native)
    ELSE Raise("AttributeError")

SpkiPath == <<"tbs_certificate", "subject_public_key_info">>

\* PKCS1Container.algorithm, PKCS8Container.algorithm,
\* PKCS12Container.algorithm, X509Container.algorithm
algorithm(self) ==
    IF self.cls \in {"PKCS1Container", "PKCS8Container"} THEN AlgorithmAttr(self.asn1)
    ELSE IF self.cls = "PKCS12Container" THEN AlgorithmAttr(self.privatekey)
    ELSE Bind(NativeAttr(self.asn1),
              LAMBDA native : GetPath(native, SpkiPath \o <<"algorithm", "algorithm">>))

\* wrong_algorihm = not (algorithm_lower == "rsa" or algorithm_lower == "ec")
WrongAlgorithm(algorithm_lower) ==
    ~(algorithm_lower = PyStr("rsa") \/ algorithm_lower = PyStr("ec"))

\* AbstractContainer._raise_if_wrong_algorithm
_raise_if_wrong_algorithm(self) ==
    Bind(algorithm(self),
         LAMBDA a : IF WrongAlgorithm(lower(a)) THEN Raise("CertificateException")
                    ELSE Return(None))

\* The outcome of parse: the container as parse leaves it, and how parse ended.
Parsed(self, out) == [self |-> self, out |-> out]

\* The end of every parse: the decoded parts are assigned, then the
\* algorithm is checked.
Checked(assigned) == Parsed(assigned, _raise_if_wrong_algorithm(assigned))

\* self.<attributes> = <call decoded>; self._raise_if_wrong_algorithm()
AssignAndCheck(self, decoded, Assign(_, _)) ==
    IF Raised(decoded) THEN Parsed(self, decoded) ELSE Checked(Assign(self, decoded.val))

\* PKCS1Container.parse and PKCS8Container.parse (the same body, with the
\* container type each asserts)
PrivateKey_parse(self, expected) ==
    IF self.type # expected THEN Parsed(self, Raise("AssertionError"))
    ELSE AssignAndCheck(self,
                        IF self.password = None
                        THEN parse_private(self.bytes, None)
                        ELSE parse_private(self.bytes, self.password),
                        LAMBDA s, asn1 : [s EXCEPT !.asn1 = asn1])

\* PKCS12Container.parse
PKCS12Container_parse(self) ==
    IF self.type # "PKCS12" THEN Parsed(self, Raise("AssertionError"))
    ELSE AssignAndCheck(self,
                        IF self.password = None
                        THEN parse_pkcs12(self.bytes, None)
                        ELSE parse_pkcs12(self.bytes, self.password),
                        LAMBDA s, p12 : [s EXCEPT !.privatekey = p12.privatekey,
                                                  !.cert = p12.cert,
                                                  !.certs = p12.certs])

\* X509Container.parse
X509Container_parse(self) ==
    IF self.type # "X509" THEN Parsed(self, Raise("AssertionError"))
    ELSE AssignAndCheck(self, parse_certificate(self.bytes),
                        LAMBDA s, asn1 : [s EXCEPT !.asn1 = asn1])

\* container.parse()
parse(self) ==
    IF self.cls = "PKCS1Container" THEN PrivateKey_parse(self, "PKCS1")
    ELSE IF self.cls = "PKCS8Container" THEN PrivateKey_parse(self, "PKCS8")
    ELSE IF self.cls = "PKCS12Container" THEN PKCS12Container_parse(self)
    ELSE X509Container_parse(self)

\* PKCS1Container.der_dump, PKCS8Container.der_dump, X509Container.der_dump;
\* PKCS12Container inherits AbstractContainer.der_dump.
der_dump(self) ==
    IF self.cls = "PKCS12Container" THEN Raise("NotImplementedError")
    ELSE dump(self.asn1)

\* PKCS1Container._pubkey_rsa / _pubkey_ec: load the encoded key, read field
Pubkey_loaded(self, field) ==
    Bind(NativeAttr(self.asn1), LAMBDA native :
    Bind(GetItem(native, "private_key"), LAMBDA private_key :
    Bind(load(private_key), LAMBDA private :
    GetItem(private, field))))

\* IdentPath with the certificate's RSA identifier read from public_exponent.
IdentPath_exponent(cls, which) ==
    IF cls \in {"PKCS8Container", "PKCS12Container"}
    THEN <<"private_key", IF which = "rsa" THEN "modulus" ELSE "public_key">>
    ELSE IF which = "rsa" THEN SpkiPath \o <<"public_key", "public_exponent">>
    ELSE SpkiPath \o <<"public_key">>

\* The key path of the identifier below the native mapping, by class.
IdentPath(cls, which) ==
    IF cls \in {"PKCS8Container", "PKCS12Container"}
    THEN <<"private_key", IF which = "rsa" THEN "modulus" ELSE "public_key">>
    ELSE IF which = "rsa" THEN SpkiPath \o <<"public_key", "modulus">>
    ELSE SpkiPath \o <<"public_key">>

\* The identifier each class hashes when algorithm() equals `which`.
Ident(self, which) ==
    IF self.cls = "PKCS1Container"
    THEN Pubkey_loaded(self, IF which = "rsa" THEN "modulus" ELSE "public_key")
    ELSE Bind(NativeAttr(IF self.cls = "PKCS12Container"
                         THEN self.privatekey ELSE self.asn1),
              LAMBDA native : GetPath(native, IdentPath(self.cls, which)))

\* if self.algorithm() == "rsa": ident = ... elif self.algorithm() == "ec":
\* ident = ...; with neither, ident is unbound when str(ident) reads it.
IdentFor(self, a) ==
    IF a = PyStr("rsa") THEN Ident(self, "rsa")
    ELSE IF a = PyStr("ec") THEN Ident(self, "ec")
    ELSE Raise("UnboundLocalError")

\* PKCS1Container.public_key_hash, PKCS8Container.public_key_hash,
\* PKCS12Container.public_key_hash, X509Container.public_key_hash
public_key_hash(self) ==
    Bind(algorithm(self), LAMBDA a :
    Bind(IdentFor(self, a), LAMBDA ident :
    Return(_sha256(Str(ident)))))

\* PKCS1Container.to_private_key and PKCS8Container.to_private_key
PrivateKey_to_private_key(self) ==
    Bind(algorithm(self), LAMBDA a :
    Bind(der_dump(self), LAMBDA der :
    Bind(public_key_hash(self), LAMBDA hash :
    Return([entity |-> "PrivateKey", algorithm |-> a, der_container |-> der,
            type |-> TypeValue(self.type), public_key_hash |-> hash]))))

\* _try_to_get_value that answers None on a miss, whatever the default.
_try_to_get_value_none(dict, key_path, default) ==
    TryExcept(GetPath(dict, key_path), Return(None)).val

\* X509Container._try_to_get_value
_try_to_get_value(dict, key_path, default) ==
    TryExcept(GetPath(dict, key_path), Return(default)).val

SubjectFields ==
    [location |-> "locality_name", cname |-> "common_name",
     country |-> "country_name", email |-> "email_address",
     organization |-> "organization_name", unit |-> "organizational_unit_name",
     province |-> "state_or_province_name"]

\* X509Container._read_subjectinfo
_read_subjectinfo(dict) ==
    [f \in DOMAIN SubjectFields |->
        _try_to_get_value(dict, <<SubjectFields[f]>>, PyStr(""))]

\* The Certificate that X509Container.to_public_key fills in.
CertificateEntity(asn1, type, der, a, hash) ==
    [entity |-> "Certificate", der_container |-> der, type |-> TypeValue(type),
     algorithm |-> a, hash_algorithm |-> asn1.hash_algo,
     public_key_hash |-> hash, serial_number |-> asn1.serial_number,
     is_CA |-> ~(asn1.ca = None \/ asn1.ca = PyFalse),
     valid_not_after |-> _try_to_get_value(asn1.native,
         <<"tbs_certificate", "validity", "not_after">>, None),
     valid_not_before |-> _try_to_get_value(asn1.native,
         <<"tbs_certificate", "validity", "not_before">>, None),
     issuer |-> _read_subjectinfo(asn1.issuer),
     subject |-> _read_subjectinfo(asn1.subject),
     domains |-> asn1.valid_domains]

\* X509Container.to_public_key
X509Container_to_public_key(self) ==
    Bind(der_dump(self), LAMBDA der :
    Bind(algorithm(self), LAMBDA a :
    Bind(public_key_hash(self), LAMBDA hash :
    Return(CertificateEntity(self.asn1, self.type, der, a, hash)))))

\* container.parse(); return F(container)
ParseThen(p, F(_)) == IF Raised(p.out) THEN p.out ELSE F(p.self)

\* PKCS12Container.to_public_key and the loop body of further_publics:
\* bytes = cert.dump(); X509Container.by_bytes(bytes); parse(); to_public_key()
CertToPublic(cert) ==
    Bind(dump(cert), LAMBDA bytes :
    Bind(by_bytes("X509Container", bytes, None), LAMBDA container :
    ParseThen(parse(container), X509Container_to_public_key)))

\* PKCS12Container.to_private_key
PKCS12Container_to_private_key(self) ==
    Bind(dump(self.privatekey), LAMBDA bytes :
    Bind(by_bytes("PKCS8Container", bytes, None), LAMBDA container :
    ParseThen(parse(container), PrivateKey_to_private_key)))

\* for cer in self.certs: others.append(...)
RECURSIVE PublicsOf(_)
PublicsOf(certs) ==
    IF certs = <<>> THEN Return(<<>>)
    ELSE Bind(CertToPublic(Head(certs)), LAMBDA first :
         Bind(PublicsOf(Tail(certs)), LAMBDA rest :
         Return(<<first>> \o rest)))

\* further_publics that answers an empty list before parse.
further_publics_default(self) ==
    IF self.cls # "PKCS12Container" THEN Raise("AttributeError")
    ELSE IF self.certs.py # "list" THEN Return(<<>>)
    ELSE PublicsOf(self.certs.elems)

\* PKCS12Container.further_publics
further_publics(self) ==
    IF self.cls # "PKCS12Container" \/ self.certs.py # "list" THEN Raise("AttributeError")
    ELSE PublicsOf(self.certs.elems)

\* container.to_private_key(): X509Container has no such method
to_private_key(self) ==
    IF self.cls \in {"PKCS1Container", "PKCS8Container"} THEN PrivateKey_to_private_key(self)
    ELSE IF self.cls = "PKCS12Container" THEN PKCS12Container_to_private_key(self)
    ELSE Raise("AttributeError")

\* container.to_public_key(): the private key containers have no such method
to_public_key(self) ==
    IF self.cls = "X509Container" THEN X509Container_to_public_key(self)
    ELSE IF self.cls = "PKCS12Container" THEN CertToPublic(self.cert)
    ELSE Raise("AttributeError")

\* X509Container.is_cert_of
is_cert_of(self, container) ==
    IF self.cls # "X509Container" THEN Raise("AttributeError")
    ELSE Bind(public_key_hash(container), LAMBDA ident :
         Bind(public_key_hash(self), LAMBDA myident :
         Return(ident = myident)))

-----------------------------------------------------------------------------
(* The inputs: decoded trees as asn1crypto exposes them, and the buffers and
   passwords that by_bytes is called with. *)

\* Bounds of the input space.
MaxChain == 1
MaxDomains == 1

Moduli == {PyInt(3233), PyInt(62615533)}
Points == {PyBytes(<<4, 9, 200>>), PyBytes(<<4, 65, 92>>)}
DsaValue == PyInt(1019)

Passwords == {PyBytes(<<116, 101, 115, 116>>), PyBytes(<<120>>)}
GoodPassword == PyBytes(<<116, 101, 115, 116>>)

\* Encoded key bytes (native["private_key"] of a key whose inner structure
\* was not decoded); load() decodes them to the mapping `inner`.
Encoded(f) == [py |-> "encoded", inner |-> f]

\* A decoded PrivateKeyInfo: its algorithm and native["private_key"].
MkKey(alg, private_key) ==
    [py |-> "PrivateKeyInfo", algorithm |-> PyStr(alg), private_key |-> private_key]

RsaFields(m) == [modulus |-> m, public_exponent |-> PyInt(65537)]
EcFields(p) == [version |-> PyStr("ecPrivkeyVer1"), public_key |-> p]

\* RSA keys carry their modulus; the public_key of an EC private key is
\* optional (None when absent); a DSA private key is an integer.
KeyTrees ==
    {MkKey("rsa", PyDict(RsaFields(m))) : m \in Moduli}
    \cup {MkKey("rsa", Encoded(RsaFields(m))) : m \in Moduli}
    \cup {MkKey("ec", PyDict(EcFields(p))) : p \in Points \cup {None}}
    \cup {MkKey("ec", Encoded(EcFields(p))) : p \in Points \cup {None}}
    \cup {MkKey("dsa", DsaValue), MkKey("dsa", Encoded(EmptyItems))}

\* The subject public key a certificate carries, by algorithm.
CertKeys ==
    {[alg |-> "rsa", key |-> PyDict(RsaFields(m))] : m \in Moduli}
    \cup {[alg |-> "ec", key |-> p] : p \in Points}
    \cup {[alg |-> "dsa", key |-> DsaValue]}

NameKeys == {SubjectFields[f] : f \in DOMAIN SubjectFields}

\* A decoded Name with the fields `present`.
NameDict(present) == PyDict([k \in present |-> PyStr(k)])

ValidityFull ==
    [not_before |-> PyStr("2016-01-01"), not_after |-> PyStr("2026-01-01")]

\* A decoded Certificate: native, and the properties the module reads.
MkCert(k, ca, validity, issuer, subject, domains) ==
    [py |-> "Certificate",
     native |-> PyDict([tbs_certificate |-> PyDict(
         [subject_public_key_info |-> PyDict(
              [algorithm |-> PyDict([algorithm |-> PyStr(k.alg)]),
               public_key |-> k.key]),
          validity |-> PyDict(validity)])]),
     hash_algo |-> PyStr("sha256"), serial_number |-> PyInt(4096),
     ca |-> ca, issuer |-> NameDict(issuer), subject |-> NameDict(subject),
     valid_domains |-> domains]

DomainSeqs ==
    UNION {[1..n -> {PyStr("vpn.example.org")}] : n \in 0..MaxDomains}

\* Plain certificates, one for each key.
SmallCerts == {MkCert(k, None, ValidityFull, NameKeys, NameKeys, <<>>) : k \in CertKeys}

\* Certificates over every combination of the optional parts.
CertTrees ==
    {MkCert(k, ca, v, NameKeys, {}, d) :
        k \in CertKeys, ca \in {None, PyFalse, PyTrue},
        v \in {ValidityFull, EmptyItems}, d \in DomainSeqs}
    \cup {MkCert(k, None, ValidityFull, NameKeys \ subject, subject, <<>>) :
        k \in {x \in CertKeys : x.key = PyDict(RsaFields(PyInt(3233)))},
        subject \in SUBSET NameKeys}

ChainCerts == {x \in SmallCerts : x.native.items.tbs_certificate.items
                  .subject_public_key_info.items.public_key
                  \in {PyDict(RsaFields(PyInt(3233))), DsaValue}}

\* What parse_pkcs12 returns: private key, main certificate (either may be
\* None when the bundle has none) and the further certificates.
P12Trees ==
    {[py |-> "pkcs12", privatekey |-> key, cert |-> cert, certs |-> PyList(certs)] :
        key \in KeyTrees \cup {None}, cert \in SmallCerts \cup {None},
        certs \in UNION {[1..n -> ChainCerts] : n \in 0..MaxChain}}

AnyKey == MkKey("rsa", PyDict(RsaFields(PyInt(3233))))
AnyRawKey == MkKey("rsa", Encoded(RsaFields(PyInt(3233))))
AnyCert == MkCert([alg |-> "rsa", key |-> PyDict(RsaFields(PyInt(3233)))],
                  None, ValidityFull, {}, {}, <<>>)
AnyP12 == [py |-> "pkcs12", privatekey |-> AnyKey, cert |-> AnyCert, certs |-> PyList(<<>>)]

\* Buffers on which any combination of the three decoders succeeds.
MixedBuffers ==
    {Buffer(p12, priv, cert, pw) :
        p12 \in {NoDecode, AnyP12}, priv \in {NoDecode, AnyKey, AnyRawKey},
        cert \in {NoDecode, AnyCert}, pw \in {None, GoodPassword}}

KeyBuffers == {Buffer(NoDecode, key, NoDecode, pw) :
                  key \in KeyTrees, pw \in {None, GoodPassword}}
CertBuffers == {Buffer(NoDecode, NoDecode, cert, None) : cert \in CertTrees}
P12Buffers == {Buffer(p12, NoDecode, NoDecode, GoodPassword) : p12 \in P12Trees}

\* The calls cls.by_bytes(bytes, password) that are explored.
Calls ==
    {<<cls, b, pw>> : cls \in Classes, b \in MixedBuffers, pw \in Passwords \cup {None}}
    \cup {<<cls, b, pw>> : cls \in {"PKCS1Container", "PKCS8Container"},
                           b \in KeyBuffers, pw \in Passwords \cup {None}}
    \cup {<<"X509Container", b, pw>> : b \in CertBuffers, pw \in {None, GoodPassword}}
    \cup {<<"PKCS12Container", b, pw>> : b \in P12Buffers, pw \in {None, GoodPassword}}

\* The containers handed to is_cert_of: an unparsed one and parsed ones.
Others ==
    LET made == {by_bytes("PKCS8Container", Buffer(NoDecode, AnyKey, NoDecode, None), None),
                 by_bytes("PKCS1Container", Buffer(NoDecode, AnyRawKey, NoDecode, None), None)}
        built == {r.val : r \in {m \in made : Returned(m)}}
    IN {o \in built : o.cls = "PKCS8Container"} \cup {parse(o).self : o \in built}

-----------------------------------------------------------------------------
(* The state: the container c (NoContainer before by_bytes), the last call
   and its outcome, and the history of c: whether parse was called and how
   it ended, and what to_private_key and to_public_key last returned or
   raised on a bundle since its parse. *)

NoContainer == [cls |-> "-"]
NotCalled == [kind |-> "not called", val |-> None, exc |-> "-"]

Init ==
    /\ c = NoContainer
    /\ ret = [op |-> "-", out |-> NotCalled]
    /\ parsed = [called |-> FALSE, out |-> NotCalled,
                 private |-> NotCalled, public |-> NotCalled]

\* The history after a call: the conversions of a parsed bundle are kept.
Keep(op, out) ==
    IF c.cls = "PKCS12Container" /\ parsed.called /\ op = "to_private_key"
    THEN [parsed EXCEPT !.private = out]
    ELSE IF c.cls = "PKCS12Container" /\ parsed.called /\ op = "to_public_key"
    THEN [parsed EXCEPT !.public = out]
    ELSE parsed

Constructing(r) ==
    /\ c' = IF Returned(r) THEN r.val ELSE c
    /\ ret' = [op |-> "by_bytes", out |-> IF Returned(r) THEN Return(None) ELSE r]
    /\ UNCHANGED parsed

\* container = cls.by_bytes(bytes, password)
ByBytes(cls, bytes, password) == Constructing(by_bytes(cls, bytes, password))

Parsing(p) ==
    /\ c' = p.self
    /\ ret' = [op |-> "parse", out |-> p.out]
    /\ parsed' = [called |-> TRUE, out |-> p.out,
                  private |-> NotCalled, public |-> NotCalled]

\* c.parse()
Parse == c # NoContainer /\ Parsing(parse(c))

\* A call that leaves the container as it is.
Call(op, out) ==
    /\ c # NoContainer
    /\ ret' = [op |-> op, out |-> out]
    /\ parsed' = Keep(op, out)
    /\ UNCHANGED c

DerDump == Call("der_dump", der_dump(c))
Algorithm == Call("algorithm", algorithm(c))
PublicKeyHash == Call("public_key_hash", public_key_hash(c))
FurtherPublics == Call("further_publics", further_publics(c))
IsCertOf == \E other \in Others : Call("is_cert_of", is_cert_of(c, other))
ToPrivateKey == Call("to_private_key", to_private_key(c))
ToPublicKey == Call("to_public_key", to_public_key(c))

\* The detector's probes and cascade, called on the container's bytes.
DetectType == Call("detect_type", detect_type(c.bytes, c.password))
IsPkcs12 == Call("_is_pkcs12", _is_pkcs12(c.bytes, c.password))
IsPkcs8 == Call("_is_pkcs8", _is_pkcs8(c.bytes, c.password))
IsPkcs1 == Call("_is_pkcs1", _is_pkcs1(c.bytes, c.password))
IsX509 == Call("_is_x509", _is_x509(c.bytes, c.password))

Next ==
    \/ c = NoContainer /\ \E call \in Calls : ByBytes(call[1], call[2], call[3])
    \/ Parse
    \/ DerDump
    \/ Algorithm
    \/ PublicKeyHash
    \/ ToPrivateKey
    \/ ToPublicKey
    \/ FurtherPublics
    \/ IsCertOf
    \/ DetectType
    \/ IsPkcs12
    \/ IsPkcs8
    \/ IsPkcs1
    \/ IsX509

Spec == Init /\ [][Next]_vars

-----------------------------------------------------------------------------
(* Properties *)

\* A probe matched: it returned True.
Matches(r) == Returned(r) /\ r.val = TRUE

Constructed == c # NoContainer

BundleProbe == _is_pkcs12(c.bytes, c.password)
WrappedProbe == _is_pkcs8(c.bytes, c.password)
RawProbe == _is_pkcs1(c.bytes, c.password)
CertProbe == _is_x509(c.bytes, c.password)

NoProbeMatches ==
    ~Matches(BundleProbe) /\ ~Matches(WrappedProbe) /\ ~Matches(RawProbe)
        /\ ~Matches(CertProbe)

\* C1: detect_type never raises, returns one of the five tags, and returns
\* Undefined exactly when none of the four probes matches; the type by_bytes
\* stores is such a tag too.
C1_DetectTotal ==
    /\ Constructed => c.type \in ContainerTypes
    /\ ret.op = "by_bytes" => Returned(ret.out)
    /\ (Constructed /\ ret.op = "detect_type") =>
          /\ Returned(ret.out)
          /\ ret.out.val \in ContainerTypes
          /\ (ret.out.val = "Undefined") <=> NoProbeMatches

\* detect_type answered Undefined on bytes that no decoder accepts.
C1_Witness ==
    /\ Constructed /\ ret.op = "detect_type" /\ Returned(ret.out)
    /\ ret.out.val = "Undefined"
    /\ c.bytes.p12 = NoDecode /\ c.bytes.priv = NoDecode /\ c.bytes.cert = NoDecode
    /\ c.password # None

\* The decoded key exposes a non-null RSA modulus or EC public key field.
ExposesKeyField(key) ==
    /\ key.private_key.py = "dict"
    /\ \E f \in {"modulus", "public_key"} :
          f \in DOMAIN key.private_key.items /\ key.private_key.items[f] # None

\* The case of C2: no bundle, the private key decode succeeds and the tree
\* exposes a key field.
WrappedCase ==
    /\ Constructed
    /\ Raised(parse_pkcs12(c.bytes, c.password))
    /\ Returned(parse_private(c.bytes, c.password))
    /\ ExposesKeyField(parse_private(c.bytes, c.password).val)

\* C2: on such an input detect_type returns PKCS8, never PKCS1, and by_bytes
\* stores PKCS8.
C2_WrappedBeforeRaw ==
    WrappedCase =>
        /\ c.type = "PKCS8"
        /\ ret.op = "detect_type" => ret.out = Return("PKCS8")

\* detect_type answered PKCS8 on a wrapped RSA key read with its password.
C2_Witness ==
    /\ WrappedCase /\ ret.op = "detect_type" /\ ret.out = Return("PKCS8")
    /\ c.bytes.priv.algorithm = PyStr("rsa") /\ c.password # None

\* The case of C3: the first three probes fail and the bytes decode as a
\* certificate.
CertificateCase ==
    /\ Constructed
    /\ ~Matches(BundleProbe) /\ ~Matches(WrappedProbe) /\ ~Matches(RawProbe)
    /\ Returned(parse_certificate(c.bytes))

\* C3: in that case detect_type returns X509, with or without a password,
\* and X509Container.parse passes its type assertion.
C3_CertificateDetected ==
    CertificateCase =>
        /\ ret.op = "detect_type" => ret.out = Return("X509")
        /\ (c.cls = "X509Container" /\ ret.op = "parse")
              => ret.out # Raise("AssertionError")

\* C4: once parse has failed with the unsupported-algorithm error, neither
\* to_private_key nor to_public_key returns an entity on that container.
C4_NoEntityAfterRejection ==
    (Constructed /\ parsed.called /\ parsed.out = Raise("CertificateException")
        /\ ret.op \in {"to_private_key", "to_public_key"})
    => Raised(ret.out)

\* The public key a decoded private key carries: the modulus, or the
\* embedded EC public key.
KeyFields(key) ==
    IF key.private_key.py = "dict" THEN key.private_key.items
    ELSE key.private_key.inner

CertKey(cert) ==
    cert.native.items.tbs_certificate.items.subject_public_key_info.items.public_key

SameKey(key, cert) ==
    /\ key.py = "PrivateKeyInfo" /\ cert.py = "Certificate"
    /\ \/ /\ key.algorithm = PyStr("rsa") /\ CertKey(cert).py = "dict"
          /\ KeyFields(key).modulus = CertKey(cert).items.modulus
       \/ /\ key.algorithm = PyStr("ec") /\ CertKey(cert).py = "bytes"
          /\ KeyFields(key).public_key = CertKey(cert)

\* A parsed bundle whose key and main certificate carry the same public key,
\* on which both conversions returned an entity.
MatchingCase ==
    /\ Constructed /\ c.cls = "PKCS12Container"
    /\ parsed.called /\ Returned(parsed.out)
    /\ SameKey(c.privatekey, c.cert)
    /\ Returned(parsed.private) /\ Returned(parsed.public)

\* C5: the PrivateKey and the Certificate of such a bundle have the same
\* public_key_hash.
C5_MatchingHashes ==
    MatchingCase =>
        parsed.private.val.public_key_hash = parsed.public.val.public_key_hash

C5_Witness ==
    /\ MatchingCase
    /\ parsed.private.val.type = PyStr("PKCS8")
    /\ parsed.public.val.type = PyStr("X509")
    /\ parsed.public.val.algorithm = PyStr("ec")

\* C6: once parse has completed, the container holds no password.
C6_PasswordCleared ==
    (Constructed /\ parsed.called) => c.password = None

DecodeOps ==
    {"der_dump", "algorithm", "public_key_hash", "to_private_key",
     "to_public_key", "further_publics", "is_cert_of"}

\* C7: before parse is called, every decode-dependent operation ends in an
\* error.
C7_FailFastBeforeParse ==
    (Constructed /\ ~parsed.called /\ ret.op \in DecodeOps) => Raised(ret.out)

\* further_publics was called on an unparsed bundle container.
C7_Witness ==
    /\ Constructed /\ ~parsed.called /\ c.cls = "PKCS12Container"
    /\ c.type = "PKCS12" /\ ret.op = "further_publics" /\ Raised(ret.out)

UpperHex ==
    {"0", "1", "2", "3", "4", "5", "6", "7", "8", "9", "A", "B", "C", "D", "E", "F"}

\* n uppercase hex pairs joined by single colons: 3n-1 characters, a colon
\* at every third position and nowhere else.
WellFormatted(f, n) ==
    /\ Len(f) = 3 * n - 1
    /\ \A i \in 1..Len(f) : IF i % 3 = 0 THEN f[i] = ":" ELSE f[i] \in UpperHex

\* The octets hashed by the last public_key_hash call.
HashedOctets == Utf8(Str(IdentFor(c, algorithm(c).val).val))

\* C8: a fingerprint is DigestLen formatted octets, it is the fingerprint of
\* the identifier alone, and every digest of n >= 1 octets is formatted as n
\* uppercase pairs joined by colons.
C8_FingerprintFormat ==
    (Constructed /\ ret.op = "public_key_hash" /\ Returned(ret.out)) =>
        /\ WellFormatted(ret.out.val, DigestLen)
        /\ \A o \in Others :
              (Returned(public_key_hash(o))
                  /\ Utf8(Str(Ident(o, "rsa").val)) = HashedOctets)
              => public_key_hash(o).val = ret.out.val
        /\ \A n \in 1..DigestLen :
              WellFormatted(_format_hash(SubSeq(Digest(HashedOctets), 1, n)), n)

C8_Witness ==
    /\ Constructed /\ ret.op = "public_key_hash" /\ Returned(ret.out)
    /\ Len(ret.out.val) = 3 * DigestLen - 1
    /\ c.cls = "X509Container"

\* What a SubjectInfo must hold for a decoded Name.
ExpectedSubject(name) ==
    [f \in DOMAIN SubjectFields |->
        IF SubjectFields[f] \in DOMAIN name.items
        THEN name.items[SubjectFields[f]] ELSE PyStr("")]

\* to_public_key was called on a successfully parsed certificate.
ParsedCertificateCase ==
    /\ Constructed /\ c.cls = "X509Container"
    /\ parsed.called /\ Returned(parsed.out)
    /\ ret.op = "to_public_key"

\* C9: to_public_key on a parsed certificate returns a Certificate whatever
\* optional fields are absent; absent SubjectInfo fields are "", present
\* ones the decoded value, and is_CA is false when the CA flag is absent or
\* false.
C9_DefaultFields ==
    ParsedCertificateCase =>
        /\ Returned(ret.out)
        /\ ret.out.val.subject = ExpectedSubject(c.asn1.subject)
        /\ ret.out.val.issuer = ExpectedSubject(c.asn1.issuer)
        /\ c.asn1.ca \in {None, PyFalse} => ret.out.val.is_CA = FALSE

\* A certificate without any subject field and without CA flag.
C9_Witness ==
    /\ ParsedCertificateCase /\ Returned(ret.out)
    /\ DOMAIN c.asn1.subject.items = {} /\ c.asn1.ca = None
    /\ \A f \in DOMAIN SubjectFields : ret.out.val.subject[f] = PyStr("")

\* C10: _is_pkcs1 returns true exactly when the private key decode succeeds
\* and _is_pkcs8 on the same bytes and password does not match.
C10_RawProbeExcludesWrapped ==
    (Constructed /\ ret.op = "_is_pkcs1") =>
        /\ Returned(ret.out)
        /\ ret.out.val = (Returned(parse_private(c.bytes, c.password))
                            /\ ~Matches(WrappedProbe))

====
